---- MODULE Spec2Model ----
(***************************************************************************)
(* Model of SDLCOrchestrator.process_issue                                  *)
(* (src/src/coding_agents/orchestration/sdlc_orchestrator.py): the          *)
(* iteration loop that drives CodeAgent and ReviewerAgent for one issue.    *)
(*                                                                         *)
(* The loop is sequential; pc is the position of the single thread of       *)
(* control.  Every collaborator call is one step whose outcome (a returned  *)
(* value or a raised exception) is drawn from the outcomes the collaborator *)
(* can produce.  Optional values (Optional[int], Optional[str]) are         *)
(* sequences of length 0 (None) or 1, so that Python truthiness of the      *)
(* optional is "the sequence is not empty".                                 *)
(***************************************************************************)
EXTENDS Integers, Sequences, FiniteSets, TLC

VARIABLES
    max_iterations,   \* self.max_iterations (settings.max_iterations)
    start_iteration,  \* the start_iteration argument of the run
    iteration,        \* the local variable iteration
    state,            \* the IterationState of the run
    review_result,    \* the verdict of the ReviewResult not yet published
    pc,               \* position of the run in process_issue
    result,           \* the dict returned by process_issue, when it returned
    raised,           \* the exception that left process_issue, when it raised
    calls,            \* the collaborator calls of the run, in order
    comments,         \* bodies of the comments created on the issue
    openPRs,          \* the open pull requests of the host
    reviews,          \* the review history of each pull request on the host
    \* ReviewerAgentService.execute and _wait_for_ci_completion
    rv_pc,               \* position of the call
    entry,               \* the method called: "execute" or "wait"
    now,                 \* time.time(), in seconds since the call started
    start_time,          \* start_time of execute
    wait_for_ci,         \* the wait_for_ci argument
    max_ci_wait_time,    \* the max_ci_wait_time / max_wait_time argument
    initial_ci_results,  \* the CI results before any wait
    ci_results,          \* the local variable ci_results
    wait_start_time,     \* start_time of _wait_for_ci_completion
    polls,               \* get_ci_results calls made by the wait loop
    sleeps,              \* time.sleep calls made by the wait loop
    last_check_elapsed,  \* elapsed time at the last test of the loop condition
    last_poll_elapsed,   \* elapsed time when the last poll was started
    last_poll_result,    \* what the last poll returned
    wait_outcome,        \* how the wait ended
    wait_result,         \* what the wait returned
    rv_result,           \* the ReviewResult returned by execute
    \* CodeAgentService.execute
    ca_pc,               \* position of the call
    call_shape,          \* how the caller passes the arguments
    arg_pr_number,       \* the PR number the caller supplies
    arg_branch,          \* the branch the caller supplies
    iteration_number,    \* the iteration number the caller supplies
    llm_changes,         \* the "changes" the model answers with when asked
    ca_pr_number,        \* the local variable pr_number
    ca_branch,           \* the local variable branch
    ca_changes,          \* the local variable changes
    effects,             \* repository and PR calls made, in order
    fault,               \* a collaborator raised or the timeout passed
    ca_result,           \* the AgentExecutionResult returned, when returned
    ca_raised,           \* the exception that left execute, when it raised
    \* github_webhook
    deliveries,          \* webhook events handled so far
    runs,                \* process_issue runs the handler has started
    earlier_code_calls   \* CodeAgent calls of the runs that have ended

runVars ==
    <<max_iterations, start_iteration, iteration, state, review_result,
      pc, result, raised, calls, comments, reviews>>

orchestratorVars == <<runVars, openPRs>>

reviewerVars ==
    <<rv_pc, entry, now, start_time, wait_for_ci, max_ci_wait_time,
      initial_ci_results, ci_results, wait_start_time, polls, sleeps,
      last_check_elapsed, last_poll_elapsed, last_poll_result, wait_outcome,
      wait_result, rv_result>>

codeAgentVars ==
    <<ca_pc, call_shape, arg_pr_number, arg_branch, iteration_number,
      llm_changes, ca_pr_number, ca_branch, ca_changes, effects, fault,
      ca_result, ca_raised>>

serviceVars == <<reviewerVars, codeAgentVars>>

webhookVars == <<deliveries, runs, earlier_code_calls>>

vars == <<orchestratorVars, serviceVars, webhookVars>>

----------------------------------------------------------------------------
(* Bounds of the model *)

MaxIterationsBound == 5
StartIterationBound == 8

----------------------------------------------------------------------------
(* Optional values *)

None == <<>>
Some(v) == <<v>>
IsSet(o) == o # <<>>
Get(o) == o[1]

----------------------------------------------------------------------------
(* Domain *)

APPROVED == "approved"
CHANGES_REQUESTED == "changes_requested"
COMMENT == "comment"
ReviewVerdict == {APPROVED, CHANGES_REQUESTED, COMMENT}

Unset == "unset"

IssueNumbers == {7}
PRNumbers == {41, 42}
Repository == "owner/repo"

MaxIterationsValues == 0..MaxIterationsBound
\* iterations are counted from 1 (the default of start_iteration)
StartIterations == 1..StartIterationBound

IssueBranch(n) == "issue-" \o ToString(n)
IterPrefix(n) == "issue-" \o ToString(n) \o "-iter-"
IterBranch(n, k) == "issue-" \o ToString(n) \o "-iter-" \o ToString(k)

IterationState(n, repo, s) ==
    [issue_number |-> n,
     repository |-> repo,
     current_iteration |-> s,
     pr_number |-> None,
     branch |-> None,
     last_review_verdict |-> Unset,
     completed |-> FALSE]

\* Value of state while no run has created its IterationState yet.
NoState == IterationState(0, "", 0)

\* Messages of an AgentExecutionResult with success = False.
AgentMessages == {"timeout exceeded", "LLM returned no valid changes"}

\* AgentExecutionResult
AgentExecutionResult(success, message, pr, branch) ==
    [raises |-> FALSE, success |-> success, message |-> message,
     pr_number |-> pr, branch |-> branch]

\* Outcome of a call of CodeAgent.execute that raises instead of returning
\* (the keyword arguments of the call do not fit the signature
\* execute(self, context, timeout) of CodeAgentService).
AgentRaises ==
    [raises |-> TRUE, success |-> FALSE, message |-> "TypeError",
     pr_number |-> None, branch |-> None]

\* Outcomes of CodeAgent.execute for issue n at iteration k: the results the
\* dataclass admits, or an exception.
CodeAgentOutcomes(n, k) ==
    {AgentRaises}
    \cup
    {AgentExecutionResult(FALSE, m, None, None) : m \in AgentMessages}
    \cup
    {AgentExecutionResult(TRUE, "changes applied", Some(42), Some(IterBranch(n, k))),
     AgentExecutionResult(TRUE, "changes applied", Some(41), None),
     AgentExecutionResult(TRUE, "changes applied", None, None)}

\* Open pull requests the host may hold when a run starts.
HostPRs ==
    {[number |-> 41, head_branch |-> IssueBranch(7)],
     [number |-> 42, head_branch |-> IterBranch(7, 1)]}

\* Review histories a pull request may already carry when a run starts.
InitialHistories ==
    {<<>>,
     <<[state |-> "CHANGES_REQUESTED", event |-> "REQUEST_CHANGES",
        body |-> "human feedback"]>>}

\* Values of the "verdict" key of the structured response of the model; the
\* last one stands for any value outside the two recognised ones and
\* "comment".
LLMVerdictValues == {"approved", "changes_requested", "comment", "request_changes"}

\* How ReviewerAgent.execute comes to its result: from a response of the model
\* (whose "verdict" key may be missing), from the except clause, or from the
\* timeout check.
ReviewerPaths ==
    {[kind |-> "llm", verdict |-> Some(v)] : v \in LLMVerdictValues}
    \cup
    {[kind |-> "llm", verdict |-> None],
     [kind |-> "error", verdict |-> None],
     [kind |-> "timeout", verdict |-> None]}

----------------------------------------------------------------------------
(* GitHubClient.get_pr_by_branch: the first open PR whose head ref equals   *)
(* the branch; a GithubException is logged and answered with None.          *)

GetPrByBranch(prs, branch, apiOk) ==
    IF apiOk /\ (\E p \in prs : p.head_branch = branch)
    THEN Some(CHOOSE p \in prs : p.head_branch = branch)
    ELSE None

(* SDLCOrchestrator._find_existing_pr *)
FindExistingPr(prs, n, apiOk1, apiOk2) ==
    LET first == GetPrByBranch(prs, IssueBranch(n), apiOk1)
        second == GetPrByBranch(prs, IterPrefix(n), apiOk2)
    IN  IF IsSet(first) THEN first
        ELSE IF IsSet(second) THEN second
        ELSE None

(* SDLCOrchestrator._get_last_review_feedback on the history revs;          *)
(* lookupOk = FALSE is a failed lookup (an empty list from get_pr_reviews   *)
(* or an exception swallowed by the except clause).                         *)
RECURSIVE LastChangesRequested(_)
LastChangesRequested(revs) ==
    IF revs = <<>> THEN None
    ELSE IF revs[Len(revs)].state = "CHANGES_REQUESTED"
         THEN Some(revs[Len(revs)].body)
         ELSE LastChangesRequested(SubSeq(revs, 1, Len(revs) - 1))

\* Variant: the feedback is always the body of the last review.
GetLastReviewFeedback_LastOnly(revs, lookupOk) ==
    IF lookupOk /\ revs # <<>> THEN Some(revs[Len(revs)].body) ELSE None

GetLastReviewFeedback(revs, lookupOk) ==
    IF lookupOk /\ revs # <<>>
    THEN IF IsSet(LastChangesRequested(revs))
         THEN LastChangesRequested(revs)
         ELSE Some(revs[Len(revs)].body)
    ELSE None

----------------------------------------------------------------------------
(* Pieces of process_issue *)

\* Variant: the loop admits one pass beyond the limit.
LoopCondition_OffByOne(it, maxIt, completed) == it <= maxIt + 1 /\ ~completed

\* while iteration <= self.max_iterations and not state.completed
LoopCondition(it, maxIt, completed) == it <= maxIt /\ ~completed

\* Variant: the CodeAgent runs on the first pass only.
CodeGate_FirstPassOnly(it, start, verdict) == it = start

\* Variant: code is generated only after a request for changes.
CodeGate_AfterChangesOnly(it, start, verdict) == verdict = CHANGES_REQUESTED

\* if iteration == start_iteration or state.last_review_verdict == CHANGES_REQUESTED
CodeGate(it, start, verdict) == it = start \/ verdict = CHANGES_REQUESTED

\* Variant: the message of the CodeAgent is returned as it is.
CodeAgentFailureMessage_Unmodified(m) == m

\* "message": f"Code Agent error: {result.message}" (the prefix is the
\* English rendering of the literal of the source)
CodeAgentFailureMessage(m) == "Code Agent error: " \o m

\* The messages below are English renderings of the Russian literals of the
\* source; the values put into them are formatted as the source formats them.
PrNotCreatedMessage == "PR was not created"

ApprovedMessage(pr) == "Task done. PR #" \o ToString(pr) \o " approved."

CommentMessage(pr) == "Review finished with comments. PR #" \o ToString(pr) \o "."

LimitMessage(maxIt) == "Iteration limit reached (" \o ToString(maxIt) \o ")"

\* body of the comment left on the issue when the limit is reached
LimitCommentBody(maxIt, pr) ==
    "Iteration limit reached (" \o ToString(maxIt) \o "). Current PR: #"
        \o (IF IsSet(pr) THEN ToString(Get(pr)) ELSE "not created")

\* Variant: the comment on the issue is never created.
LimitExceeded_Never(it, maxIt) == FALSE

\* if iteration > self.max_iterations (the comment on the issue is created)
LimitExceeded(it, maxIt) == it > maxIt

\* Variant: the final return reports the loop variable as it is.
LimitIteration_NoDecrement(it) == it

\* "iteration": iteration - 1 of the final return
LimitIteration(it) == it - 1

\* Variant: a failure of the CodeAgent does not end the run.
CodeAgentAborts_Never(out) == FALSE

\* if not result.success (the run returns the failure of the CodeAgent)
CodeAgentAborts(out) == ~out.success

\* Variant: an approved review sends the loop into another iteration.
VerdictBranch_ApprovedContinues(verdict, it, pr) ==
    IF verdict = COMMENT
    THEN [completed |-> TRUE, iteration |-> it, returns |-> TRUE,
          success |-> TRUE, message |-> CommentMessage(pr)]
    ELSE [completed |-> FALSE, iteration |-> it + 1, returns |-> FALSE,
          success |-> FALSE, message |-> ""]

\* Variant: a review that requests changes ends the run like a comment.
VerdictBranch_ChangesRequestedStops(verdict, it, pr) ==
    IF verdict = APPROVED
    THEN [completed |-> TRUE, iteration |-> it, returns |-> TRUE,
          success |-> TRUE, message |-> ApprovedMessage(pr)]
    ELSE [completed |-> TRUE, iteration |-> it, returns |-> TRUE,
          success |-> TRUE, message |-> CommentMessage(pr)]

\* Variant: a comment verdict is retried like a request for changes.
VerdictBranch_CommentRetries(verdict, it, pr) ==
    IF verdict = APPROVED
    THEN [completed |-> TRUE, iteration |-> it, returns |-> TRUE,
          success |-> TRUE, message |-> ApprovedMessage(pr)]
    ELSE [completed |-> FALSE, iteration |-> it + 1, returns |-> FALSE,
          success |-> FALSE, message |-> ""]

\* Variant: a request for changes marks the run completed and loops on.
VerdictBranch_CompletesOnChanges(verdict, it, pr) ==
    IF verdict = APPROVED
    THEN [completed |-> TRUE, iteration |-> it, returns |-> TRUE,
          success |-> TRUE, message |-> ApprovedMessage(pr)]
    ELSE IF verdict = CHANGES_REQUESTED
    THEN [completed |-> TRUE, iteration |-> it + 1, returns |-> FALSE,
          success |-> FALSE, message |-> ""]
    ELSE [completed |-> TRUE, iteration |-> it, returns |-> TRUE,
          success |-> TRUE, message |-> CommentMessage(pr)]

\* Variant: a request for changes loops on without counting the pass.
VerdictBranch_NoIncrement(verdict, it, pr) ==
    IF verdict = APPROVED
    THEN [completed |-> TRUE, iteration |-> it, returns |-> TRUE,
          success |-> TRUE, message |-> ApprovedMessage(pr)]
    ELSE IF verdict = CHANGES_REQUESTED
    THEN [completed |-> FALSE, iteration |-> it, returns |-> FALSE,
          success |-> FALSE, message |-> ""]
    ELSE [completed |-> TRUE, iteration |-> it, returns |-> TRUE,
          success |-> TRUE, message |-> CommentMessage(pr)]

\* Variant: a Comment verdict ends the run as a failure.
VerdictBranch_CommentFails(verdict, it, pr) ==
    IF verdict = APPROVED
    THEN [completed |-> TRUE, iteration |-> it, returns |-> TRUE,
          success |-> TRUE, message |-> ApprovedMessage(pr)]
    ELSE IF verdict = CHANGES_REQUESTED
    THEN [completed |-> FALSE, iteration |-> it + 1, returns |-> FALSE,
          success |-> FALSE, message |-> ""]
    ELSE [completed |-> TRUE, iteration |-> it, returns |-> TRUE,
          success |-> FALSE, message |-> CommentMessage(pr)]

\* The branch on the verdict of a published review: whether the run is
\* completed, the iteration it goes on with, whether it returns and with
\* which success flag and message.
VerdictBranch(verdict, it, pr) ==
    IF verdict = APPROVED
    THEN [completed |-> TRUE, iteration |-> it, returns |-> TRUE,
          success |-> TRUE, message |-> ApprovedMessage(pr)]
    ELSE IF verdict = CHANGES_REQUESTED
    THEN [completed |-> FALSE, iteration |-> it + 1, returns |-> FALSE,
          success |-> FALSE, message |-> ""]
    ELSE [completed |-> TRUE, iteration |-> it, returns |-> TRUE,
          success |-> TRUE, message |-> CommentMessage(pr)]

\* Variant: the value of the model is taken over as the verdict.
ParseVerdict_PassThrough(response_verdict) ==
    IF IsSet(response_verdict) THEN Get(response_verdict) ELSE "comment"

\* ReviewerAgent.execute, lines 98-104: the verdict read from the response
ParseVerdict(response_verdict) ==
    LET verdict_str == IF IsSet(response_verdict)
                       THEN Get(response_verdict) ELSE "comment"
    IN  IF verdict_str = "approved" THEN APPROVED
        ELSE IF verdict_str = "changes_requested" THEN CHANGES_REQUESTED
        ELSE COMMENT

\* Variant: a review that failed internally asks for changes.
ReviewerVerdict_FailureRequestsChanges(path) ==
    IF path.kind = "llm" THEN ParseVerdict(path.verdict) ELSE CHANGES_REQUESTED

\* The verdict of the ReviewResult that ReviewerAgent.execute returns
ReviewerVerdict(path) ==
    IF path.kind = "llm" THEN ParseVerdict(path.verdict) ELSE COMMENT

\* What the call log keeps of the path of a review
PathLabel(path) ==
    IF path.kind # "llm" THEN path.kind
    ELSE IF IsSet(path.verdict) THEN "llm:" \o Get(path.verdict)
    ELSE "llm:"

\* Variant: the review is submitted with the event of its verdict.
ReviewEvent_ByVerdict(verdict) ==
    IF verdict = APPROVED THEN "APPROVE"
    ELSE IF verdict = CHANGES_REQUESTED THEN "REQUEST_CHANGES"
    ELSE "COMMENT"

\* publish_review, lines 181-184: event = "COMMENT" for every verdict
ReviewEvent(verdict) == "COMMENT"

\* The state the host gives a review submitted with an event
HostReviewState(event) ==
    IF event = "APPROVE" THEN "APPROVED"
    ELSE IF event = "REQUEST_CHANGES" THEN "CHANGES_REQUESTED"
    ELSE "COMMENTED"

\* Variant: the result of the CodeAgent always replaces the value of the state.
MergeOptional_Overwrite(old, new) == new

\* lines 83-86: if result.pr_number: state.pr_number = result.pr_number
MergeOptional(old, new) == IF IsSet(new) THEN new ELSE old

\* header of the review body built by publish_review
ReviewBody(verdict) ==
    IF verdict = APPROVED THEN "ready to approve"
    ELSE IF verdict = CHANGES_REQUESTED THEN "changes required"
    ELSE "review comment"

\* A collaborator call: its arguments, its outcome ("raise" when it raised)
\* and the message of the result or of the exception.
\* Variant: the review step runs whether or not a PR is known.
HasPrNumber_Always(st) == TRUE

\* line 91: if state.pr_number
HasPrNumber(st) == IsSet(st.pr_number)

\* line 96: the ReviewerAgent is always called with wait_for_ci=True
Call(op, it, pr, fb, out, msg) ==
    [op |-> op, iteration |-> it, pr_number |-> pr,
     previous_feedback |-> fb, outcome |-> out, message |-> msg,
     wait_for_ci |-> (op = "reviewer.execute")]

Returned(success, message, it) ==
    Some([success |-> success, message |-> message, iteration |-> it])

----------------------------------------------------------------------------
\* No webhook event is handled.
WebhookOff ==
    /\ deliveries = 0
    /\ runs = 0
    /\ earlier_code_calls = 0

\* No call of ReviewerAgentService is in progress.
ReviewerOff ==
    /\ rv_pc = "off"
    /\ entry = "none"
    /\ now = 0
    /\ start_time = 0
    /\ wait_for_ci = FALSE
    /\ max_ci_wait_time = 0
    /\ initial_ci_results = <<>>
    /\ ci_results = <<>>
    /\ wait_start_time = 0
    /\ polls = 0
    /\ sleeps = 0
    /\ last_check_elapsed = -1
    /\ last_poll_elapsed = -1
    /\ last_poll_result = <<>>
    /\ wait_outcome = "none"
    /\ wait_result = <<>>
    /\ rv_result = None

\* No call of CodeAgentService is in progress.
CodeAgentOff ==
    /\ ca_pc = "off"
    /\ call_shape = "none"
    /\ arg_pr_number = <<>>
    /\ arg_branch = <<>>
    /\ iteration_number = 0
    /\ llm_changes = <<>>
    /\ ca_pr_number = <<>>
    /\ ca_branch = <<>>
    /\ ca_changes = <<>>
    /\ effects = <<>>
    /\ fault = FALSE
    /\ ca_result = <<>>
    /\ ca_raised = <<>>

ServicesOff == ReviewerOff /\ CodeAgentOff

Init ==
    /\ max_iterations \in MaxIterationsValues
    /\ openPRs \in SUBSET HostPRs
    /\ \E h \in InitialHistories :
          reviews = [p \in PRNumbers |-> IF p = 41 THEN h ELSE <<>>]
    /\ start_iteration = 0
    /\ iteration = 0
    /\ state = NoState
    /\ review_result = Unset
    /\ pc = "idle"
    /\ result = None
    /\ raised = None
    /\ calls = <<>>
    /\ comments = <<>>
    /\ ServicesOff
    /\ WebhookOff

(* process_issue, lines 30-52: the state of the run is created, an existing *)
(* PR is looked up and seeds pr_number and branch.                          *)
ProcessIssue ==
    /\ pc = "idle"
    /\ \E n \in IssueNumbers, s \in StartIterations,
          apiOk1 \in BOOLEAN, apiOk2 \in BOOLEAN :
          LET existing_pr == FindExistingPr(openPRs, n, apiOk1, apiOk2)
              fresh == IterationState(n, Repository, s)
          IN  /\ start_iteration' = s
              /\ iteration' = s
              /\ state' = IF IsSet(existing_pr)
                          THEN [fresh EXCEPT
                                  !.pr_number = Some(Get(existing_pr).number),
                                  !.branch = Some(Get(existing_pr).head_branch)]
                          ELSE fresh
    /\ pc' = "loop"
    /\ UNCHANGED <<max_iterations, review_result, result, raised, calls,
                   comments, openPRs, reviews>>
    /\ UNCHANGED <<serviceVars, webhookVars>>

(* One pass through the loop head and step 1 (lines 54-88).                 *)
CodeAgentStep ==
    /\ pc = "loop"
    /\ LoopCondition(iteration, max_iterations, state.completed)
    /\ IF CodeGate(iteration, start_iteration, state.last_review_verdict)
       THEN \E lookupOk \in BOOLEAN,
               out \in CodeAgentOutcomes(state.issue_number, iteration) :
              LET previous_feedback ==
                      IF iteration > 1 /\ IsSet(state.pr_number)
                      THEN GetLastReviewFeedback(
                               reviews[Get(state.pr_number)], lookupOk)
                      ELSE None
                  kind == IF out.raises THEN "raise"
                          ELSE IF out.success THEN "success" ELSE "failure"
              IN  /\ calls' = Append(calls,
                          Call("code_agent.execute", iteration,
                               state.pr_number, previous_feedback, kind,
                               out.message))
                  /\ IF out.raises
                     THEN /\ raised' = Some(out.message)
                          /\ pc' = "done"
                          /\ UNCHANGED <<state, result>>
                     ELSE IF CodeAgentAborts(out)
                     THEN /\ result' = Returned(FALSE,
                                 CodeAgentFailureMessage(out.message), iteration)
                          /\ pc' = "done"
                          /\ UNCHANGED <<state, raised>>
                     ELSE /\ state' = [state EXCEPT
                                 !.pr_number = MergeOptional(@, out.pr_number),
                                 !.branch = MergeOptional(@, out.branch)]
                          /\ pc' = "review"
                          /\ UNCHANGED <<result, raised>>
       ELSE /\ pc' = "review"
            /\ UNCHANGED <<state, result, raised, calls>>
    /\ UNCHANGED <<max_iterations, start_iteration, iteration, review_result,
                   comments, openPRs, reviews>>
    /\ UNCHANGED <<serviceVars, webhookVars>>

(* Step 2 with a PR number (lines 91-97): ReviewerAgent.execute.            *)
ReviewerExecute ==
    /\ pc = "review"
    /\ HasPrNumber(state)
    /\ \E path \in ReviewerPaths :
          /\ review_result' = ReviewerVerdict(path)
          /\ calls' = Append(calls,
                  Call("reviewer.execute", iteration, state.pr_number, None,
                       ReviewerVerdict(path), PathLabel(path)))
    /\ pc' = "publish"
    /\ UNCHANGED <<max_iterations, start_iteration, iteration, state, result,
                   raised, comments, openPRs, reviews>>
    /\ UNCHANGED <<serviceVars, webhookVars>>

(* Step 2 without a PR number (lines 141-148).                              *)
PrNotCreated ==
    /\ pc = "review"
    /\ ~HasPrNumber(state)
    /\ result' = Returned(FALSE, PrNotCreatedMessage, iteration)
    /\ pc' = "done"
    /\ UNCHANGED <<max_iterations, start_iteration, iteration, state,
                   review_result, raised, calls, comments, openPRs, reviews>>
    /\ UNCHANGED <<serviceVars, webhookVars>>

(* publish_review and the branch on the verdict (lines 100-140).            *)
(* publish_review re-raises what create_review raises.                      *)
PublishReview ==
    /\ pc = "publish"
    /\ \E publishOk \in BOOLEAN :
          /\ calls' = Append(calls,
                  Call("reviewer.publish_review", iteration, state.pr_number,
                       None, IF publishOk THEN review_result ELSE "raise",
                       IF publishOk THEN "" ELSE "GithubException"))
          /\ IF ~publishOk
             THEN /\ raised' = Some("GithubException")
                  /\ pc' = "done"
                  /\ UNCHANGED <<iteration, state, result, reviews>>
             ELSE LET b == VerdictBranch(review_result, iteration,
                                         Get(state.pr_number))
                  IN  /\ reviews' = [reviews EXCEPT ![Get(state.pr_number)] =
                             Append(@, [state |-> HostReviewState(
                                                     ReviewEvent(review_result)),
                                        event |-> ReviewEvent(review_result),
                                        body |-> ReviewBody(review_result)])]
                      /\ raised' = raised
                      /\ iteration' = b.iteration
                      /\ state' = [state EXCEPT
                             !.last_review_verdict = review_result,
                             !.completed = b.completed,
                             !.current_iteration =
                                 IF b.returns THEN @ ELSE b.iteration]
                      /\ IF b.returns
                         THEN /\ result' = Returned(b.success, b.message,
                                                    iteration)
                              /\ pc' = "done"
                         ELSE /\ result' = result
                              /\ pc' = "loop"
    /\ UNCHANGED <<max_iterations, start_iteration, review_result, comments,
                   openPRs>>
    /\ UNCHANGED <<serviceVars, webhookVars>>

(* After the loop (lines 150-171): the comment on the issue and the final   *)
(* return.  create_comment re-raises a GithubException.                     *)
IterationLimit ==
    /\ pc = "loop"
    /\ ~LoopCondition(iteration, max_iterations, state.completed)
    /\ IF LimitExceeded(iteration, max_iterations)
       THEN \E commentOk \in BOOLEAN :
              /\ calls' = Append(calls,
                      Call("github.create_comment", iteration, state.pr_number,
                           None, IF commentOk THEN "ok" ELSE "raise",
                           IF commentOk THEN "" ELSE "GithubException"))
              /\ IF commentOk
                 THEN /\ comments' = Append(comments,
                             LimitCommentBody(max_iterations, state.pr_number))
                      /\ result' = Returned(FALSE, LimitMessage(max_iterations),
                                            LimitIteration(iteration))
                      /\ raised' = raised
                 ELSE /\ raised' = Some("GithubException")
                      /\ UNCHANGED <<comments, result>>
       ELSE /\ result' = Returned(FALSE, LimitMessage(max_iterations),
                                  LimitIteration(iteration))
            /\ UNCHANGED <<calls, comments, raised>>
    /\ pc' = "done"
    /\ UNCHANGED <<max_iterations, start_iteration, iteration, state,
                   review_result, openPRs, reviews>>
    /\ UNCHANGED <<serviceVars, webhookVars>>

Next ==
    \/ ProcessIssue
    \/ CodeAgentStep
    \/ ReviewerExecute
    \/ PrNotCreated
    \/ PublishReview
    \/ IterationLimit

Spec == Init /\ [][Next]_vars

\* process_issue runs in one thread and each of its steps comes back, so the
\* run goes on as long as a step is left.
SpecLive == Spec /\ WF_vars(Next)

----------------------------------------------------------------------------
(* ReviewerAgentService.execute and _wait_for_ci_completion, with time.     *)
(* Time is counted in whole seconds from the start of the call.             *)

\* settings.reviewer_timeout
reviewer_timeout == 180
\* the default of max_ci_wait_time and of max_wait_time
DefaultMaxWaitTime == 300
\* the default of check_interval
check_interval == 10

\* The values of max_ci_wait_time a call is made with
MaxWaitTimes == {0, 20, DefaultMaxWaitTime}

\* Seconds a call of the host takes
CallDurations == {0, 1}

\* CIStatus
SUCCESS == "success"
FAILURE == "failure"
ERROR == "error"
PENDING == "pending"

\* conclusion of a check run that has not completed (None in Python)
NoConclusion == "None"

CIResult(status, conclusion) == [status |-> status, conclusion |-> conclusion]

\* What the host knows of a commit: the states of its commit statuses and
\* the conclusions of its check runs.
HostCIViews ==
    {[statuses |-> <<>>, check_runs |-> <<>>],
     [statuses |-> <<>>, check_runs |-> <<"success">>],
     [statuses |-> <<"success">>, check_runs |-> <<"failure">>],
     [statuses |-> <<>>, check_runs |-> <<NoConclusion>>],
     [statuses |-> <<"pending">>, check_runs |-> <<"success">>],
     [statuses |-> <<>>, check_runs |-> <<"skipped">>]}

\* get_ci_results, lines 80-86: the CIStatus of a commit status
StatusOfCommitState(st) ==
    IF st = "pending" THEN PENDING
    ELSE IF st = "error" THEN ERROR
    ELSE IF st = "success" THEN SUCCESS
    ELSE FAILURE

\* get_ci_results, lines 101-108: the CIStatus of a check run
StatusOfConclusion(conclusion) ==
    IF conclusion = "success" THEN SUCCESS
    ELSE IF conclusion \in {"failure", "cancelled"} THEN FAILURE
    ELSE IF conclusion = "error" THEN ERROR
    ELSE PENDING

\* GitHubClient.get_ci_results: the commit statuses, then the check runs; a
\* GithubException is answered with the empty list.
GetCiResults(view, apiOk) ==
    IF ~apiOk THEN <<>>
    ELSE [i \in 1..Len(view.statuses) |->
             CIResult(StatusOfCommitState(view.statuses[i]), view.statuses[i])]
         \o
         [i \in 1..Len(view.check_runs) |->
             CIResult(StatusOfConclusion(view.check_runs[i]), view.check_runs[i])]

\* Variant: every result that is not a success counts as pending.
HasPendingCi_NotSuccess(results) ==
    \E i \in 1..Len(results) : results[i].status # SUCCESS

\* _has_pending_ci
HasPendingCi(results) ==
    \E i \in 1..Len(results) : results[i].status = PENDING

\* Variant: the loop goes on while the elapsed time is at most max_wait_time.
WaitLoopCondition_Inclusive(elapsed, max_wait_time) == elapsed <= max_wait_time

\* while time.time() - start_time < max_wait_time
WaitLoopCondition(elapsed, max_wait_time) == elapsed < max_wait_time

\* if time.time() - start_time > timeout
ReviewerTimedOut(elapsed, timeout) == elapsed > timeout

\* The ReviewResult of execute: its verdict and the path that produced it
ReviewResult(path) == Some([verdict |-> ReviewerVerdict(path), path |-> path.kind])

\* The orchestrator does not run.
OrchestratorOff ==
    /\ max_iterations = 0
    /\ start_iteration = 0
    /\ iteration = 0
    /\ state = NoState
    /\ review_result = Unset
    /\ pc = "off"
    /\ result = None
    /\ raised = None
    /\ calls = <<>>
    /\ comments = <<>>
    /\ openPRs = {}
    /\ reviews = [p \in PRNumbers |-> <<>>]

\* A call of execute(repo, pr_number, wait_for_ci, max_ci_wait_time), or a
\* call of _wait_for_ci_completion(repo, sha, initial_ci_results,
\* max_wait_time) on its own.
InitReviewer ==
    /\ OrchestratorOff
    /\ CodeAgentOff
    /\ WebhookOff
    /\ now = 0
    /\ start_time = 0
    /\ max_ci_wait_time \in MaxWaitTimes
    /\ \/ /\ entry = "execute"
          /\ rv_pc = "get_pr"
          /\ wait_for_ci \in BOOLEAN
          /\ initial_ci_results = <<>>
       \/ /\ entry = "wait"
          /\ rv_pc = "wait_check"
          /\ wait_for_ci = TRUE
          /\ \E view \in HostCIViews :
                initial_ci_results = GetCiResults(view, TRUE)
    /\ ci_results = initial_ci_results
    /\ wait_start_time = 0
    /\ polls = 0
    /\ sleeps = 0
    /\ last_check_elapsed = -1
    /\ last_poll_elapsed = -1
    /\ last_poll_result = <<>>
    /\ wait_outcome = "none"
    /\ wait_result = <<>>
    /\ rv_result = None

\* execute, lines 44-48: get_pr and _find_related_issue; an exception goes to
\* the except clause.
ExecuteGetPr ==
    /\ rv_pc = "get_pr"
    /\ \E ok \in BOOLEAN, d \in CallDurations :
          /\ now' = now + d
          /\ IF ok
             THEN rv_pc' = "get_ci" /\ rv_result' = rv_result
             ELSE /\ rv_pc' = "done"
                  /\ rv_result' = ReviewResult([kind |-> "error", verdict |-> None])
    /\ UNCHANGED <<entry, start_time, wait_for_ci, max_ci_wait_time,
                   initial_ci_results, ci_results, wait_start_time, polls,
                   sleeps, last_check_elapsed, last_poll_elapsed,
                   last_poll_result, wait_outcome, wait_result>>
    /\ UNCHANGED <<orchestratorVars, codeAgentVars, webhookVars>>

\* execute, lines 51-62: the CI results of the head commit; the wait is
\* entered when wait_for_ci is set and a result is pending.
ExecuteGetCiResults ==
    /\ rv_pc = "get_ci"
    /\ \E view \in HostCIViews, apiOk \in BOOLEAN, d \in CallDurations :
          LET fetched == GetCiResults(view, apiOk)
              waits == wait_for_ci /\ HasPendingCi(fetched)
          IN  /\ now' = now + d
              /\ initial_ci_results' = fetched
              /\ ci_results' = fetched
              /\ wait_start_time' = now + d
              /\ rv_pc' = IF waits THEN "wait_check" ELSE "get_reviews"
              /\ wait_outcome' = IF waits THEN "none" ELSE "skipped"
              /\ wait_result' = IF waits THEN wait_result ELSE fetched
    /\ UNCHANGED <<entry, start_time, wait_for_ci, max_ci_wait_time, polls,
                   sleeps, last_check_elapsed, last_poll_elapsed,
                   last_poll_result, rv_result>>
    /\ UNCHANGED <<orchestratorVars, codeAgentVars, webhookVars>>

\* _wait_for_ci_completion, lines 269-272 and 277: the test of the loop
\* condition and of the break; the method returns ci_results when either
\* ends the loop.
WaitLoopCheck ==
    /\ rv_pc = "wait_check"
    /\ LET elapsed == now - wait_start_time
           timed_out == ~WaitLoopCondition(elapsed, max_ci_wait_time)
           completed == ~HasPendingCi(ci_results)
       IN  /\ last_check_elapsed' = elapsed
           /\ IF timed_out \/ completed
              THEN /\ wait_outcome' = IF timed_out THEN "timeout" ELSE "completed"
                   /\ wait_result' = ci_results
                   /\ rv_pc' = IF entry = "wait" THEN "done" ELSE "get_reviews"
              ELSE /\ rv_pc' = "sleep"
                   /\ UNCHANGED <<wait_outcome, wait_result>>
    /\ UNCHANGED <<entry, now, start_time, wait_for_ci, max_ci_wait_time,
                   initial_ci_results, ci_results, wait_start_time, polls,
                   sleeps, last_poll_elapsed, last_poll_result, rv_result>>
    /\ UNCHANGED <<orchestratorVars, codeAgentVars, webhookVars>>

\* _wait_for_ci_completion, line 274: time.sleep(check_interval)
WaitSleep ==
    /\ rv_pc = "sleep"
    /\ now' = now + check_interval
    /\ sleeps' = sleeps + 1
    /\ rv_pc' = "poll"
    /\ UNCHANGED <<entry, start_time, wait_for_ci, max_ci_wait_time,
                   initial_ci_results, ci_results, wait_start_time, polls,
                   last_check_elapsed, last_poll_elapsed, last_poll_result,
                   wait_outcome, wait_result, rv_result>>
    /\ UNCHANGED <<orchestratorVars, codeAgentVars, webhookVars>>

\* _wait_for_ci_completion, line 275: ci_results = get_ci_results(repo, sha)
WaitPoll ==
    /\ rv_pc = "poll"
    /\ \E view \in HostCIViews, apiOk \in BOOLEAN, d \in CallDurations :
          /\ last_poll_elapsed' = now - wait_start_time
          /\ ci_results' = GetCiResults(view, apiOk)
          /\ last_poll_result' = GetCiResults(view, apiOk)
          /\ now' = now + d
    /\ polls' = polls + 1
    /\ rv_pc' = "wait_check"
    /\ UNCHANGED <<entry, start_time, wait_for_ci, max_ci_wait_time,
                   initial_ci_results, wait_start_time, sleeps,
                   last_check_elapsed, wait_outcome, wait_result, rv_result>>
    /\ UNCHANGED <<orchestratorVars, codeAgentVars, webhookVars>>

\* execute, lines 64-74: the review history is read, then the timeout check
\* returns a Comment review once reviewer_timeout is exceeded.
ExecuteTimeoutCheck ==
    /\ rv_pc = "get_reviews"
    /\ \E d \in CallDurations :
          /\ now' = now + d
          /\ IF ReviewerTimedOut(now + d - start_time, reviewer_timeout)
             THEN /\ rv_pc' = "done"
                  /\ rv_result' = ReviewResult([kind |-> "timeout", verdict |-> None])
             ELSE rv_pc' = "llm" /\ rv_result' = rv_result
    /\ UNCHANGED <<entry, start_time, wait_for_ci, max_ci_wait_time,
                   initial_ci_results, ci_results, wait_start_time, polls,
                   sleeps, last_check_elapsed, last_poll_elapsed,
                   last_poll_result, wait_outcome, wait_result>>
    /\ UNCHANGED <<orchestratorVars, codeAgentVars, webhookVars>>

\* execute, lines 76-143: the model is asked and its verdict parsed; an
\* exception goes to the except clause. The clock is not read any more.
ExecuteLLM ==
    /\ rv_pc = "llm"
    /\ \E path \in {q \in ReviewerPaths : q.kind \in {"llm", "error"}} :
          rv_result' = ReviewResult(path)
    /\ rv_pc' = "done"
    /\ UNCHANGED <<entry, now, start_time, wait_for_ci, max_ci_wait_time,
                   initial_ci_results, ci_results, wait_start_time, polls,
                   sleeps, last_check_elapsed, last_poll_elapsed,
                   last_poll_result, wait_outcome, wait_result>>
    /\ UNCHANGED <<orchestratorVars, codeAgentVars, webhookVars>>

NextReviewer ==
    \/ ExecuteGetPr
    \/ ExecuteGetCiResults
    \/ WaitLoopCheck
    \/ WaitSleep
    \/ WaitPoll
    \/ ExecuteTimeoutCheck
    \/ ExecuteLLM

SpecReviewer == InitReviewer /\ [][NextReviewer]_vars

\* The call runs in one thread and each of its steps returns, so it goes on
\* as long as a step is left.
SpecReviewerLive == SpecReviewer /\ WF_vars(NextReviewer)

----------------------------------------------------------------------------
(* CodeAgentService.execute(context, timeout)                               *)

MaxChanges == 2

\* How a caller passes the issue: by the keywords repo, issue_number, ... (the
\* orchestrator, the server and the tests), as a CodeAgentContext, or as an
\* object that has the attributes execute reads.
CallShapes == {"keywords", "context", "attributes"}

\* The parameters of execute
ExecuteParameters == {"context", "timeout"}

\* The arguments of a keyword call
KeywordArguments ==
    {"repo", "issue_number", "branch", "pr_number", "previous_feedback",
     "iteration_number"}

\* The attributes lines 39-44 read from the context
ContextReads ==
    {"repository", "issue_number", "pr_number", "iteration_number",
     "previous_feedback", "branch"}

\* The fields of CodeAgentContext
CodeAgentContext ==
    {"issue", "repository_path", "branch", "previous_review_feedback",
     "iteration_number"}

\* What the call does before the try block is entered: a keyword that is no
\* parameter raises TypeError, an attribute the context lacks raises
\* AttributeError.
BindArguments(shape) ==
    IF shape = "keywords"
    THEN IF KeywordArguments \subseteq ExecuteParameters
         THEN None ELSE Some("TypeError")
    ELSE IF shape = "context"
    THEN IF ContextReads \subseteq CodeAgentContext
         THEN None ELSE Some("AttributeError")
    ELSE None

RECURSIVE LStrip(_)
LStrip(str) ==
    IF Len(str) > 0 /\ SubSeq(str, 1, 1) = " "
    THEN LStrip(SubSeq(str, 2, Len(str)))
    ELSE str

RECURSIVE RStrip(_)
RStrip(str) ==
    IF Len(str) > 0 /\ SubSeq(str, Len(str), Len(str)) = " "
    THEN RStrip(SubSeq(str, 1, Len(str) - 1))
    ELSE str

\* str.strip()
Strip(str) == RStrip(LStrip(str))

\* One entry of the "changes" of the model
ChangeData(operation, content) == [operation |-> operation, content |-> content]

ChangeSamples ==
    {ChangeData("create", "print('hello world')"),
     ChangeData("create", ""),
     ChangeData("modify", "   pass    "),
     ChangeData("modify", "a         b"),
     ChangeData("delete", "")}

\* The "changes" lists of the model
LLMChanges ==
    UNION {[1..k -> ChangeSamples] : k \in 0..MaxChanges}

\* lines 102-103: a create or modify whose content is empty or shorter than
\* 10 characters once stripped is skipped.
ChangeIsValid(change) ==
    ~(/\ change.operation \in {"create", "modify"}
      /\ (change.content = "" \/ Len(Strip(change.content)) < 10))

\* lines 98-121: the changes kept; the ValueError raised for a single short
\* change is caught in the loop and skips it as well.
ValidChanges(changes_data) == SelectSeq(changes_data, ChangeIsValid)

NoValidChangesMessage == "LLM returned no valid code changes"
TimeoutMessage == "timeout exceeded"
ErrorMessage == "Error"

\* AgentExecutionResult with its changes
ExecutionResult(success, message, pr, br, chs) ==
    Some([success |-> success, message |-> message, pr_number |-> pr,
          branch |-> br, changes |-> chs])

\* line 183-190: the result of the except clause
ExceptResult == ExecutionResult(FALSE, ErrorMessage, None, None, <<>>)

\* The number the host gives a new pull request
CreatedPRNumbers == {43}

InitCodeAgent ==
    /\ max_iterations = 0
    /\ start_iteration = 0
    /\ iteration = 0
    /\ state = NoState
    /\ review_result = Unset
    /\ pc = "off"
    /\ result = None
    /\ raised = None
    /\ calls = <<>>
    /\ comments = <<>>
    /\ reviews = [p \in PRNumbers |-> <<>>]
    /\ openPRs \in SUBSET HostPRs
    /\ ReviewerOff
    /\ WebhookOff
    /\ ca_pc = "call"
    /\ call_shape \in CallShapes
    /\ arg_pr_number \in {None, Some(41)}
    /\ arg_branch \in {None, Some(IssueBranch(7))}
    /\ iteration_number \in {1, 2}
    /\ llm_changes \in LLMChanges
    /\ ca_pr_number = None
    /\ ca_branch = None
    /\ ca_changes = <<>>
    /\ effects = <<>>
    /\ fault = FALSE
    /\ ca_result = None
    /\ ca_raised = None

\* lines 36-44: the call is bound and the context is read, outside the try
\* block.
ExecuteCall ==
    /\ ca_pc = "call"
    /\ IF IsSet(BindArguments(call_shape))
       THEN /\ ca_raised' = BindArguments(call_shape)
            /\ ca_pc' = "done"
            /\ UNCHANGED <<ca_pr_number, ca_branch>>
       ELSE /\ ca_pc' = "get_issue"
            /\ ca_pr_number' = arg_pr_number
            /\ ca_branch' = arg_branch
            /\ UNCHANGED ca_raised
    /\ UNCHANGED <<call_shape, arg_pr_number, arg_branch, iteration_number,
                   llm_changes, ca_changes, effects, fault, ca_result>>
    /\ UNCHANGED <<orchestratorVars, reviewerVars, webhookVars>>

\* lines 47-81: the issue is read, the branch gets its default name, the
\* context is gathered and the timeout is checked.
ExecuteGetIssue ==
    /\ ca_pc = "get_issue"
    /\ \E outcome \in {"ok", "raise", "timeout"} :
          IF outcome = "ok"
          THEN /\ ca_branch' = IF IsSet(ca_branch) THEN ca_branch
                            ELSE Some(IterBranch(7, iteration_number))
               /\ ca_pc' = "generate"
               /\ UNCHANGED <<fault, ca_result>>
          ELSE /\ fault' = TRUE
               /\ ca_pc' = "done"
               /\ ca_result' = IF outcome = "raise" THEN ExceptResult
                                ELSE ExecutionResult(FALSE, TimeoutMessage,
                                                     None, None, <<>>)
               /\ UNCHANGED ca_branch
    /\ UNCHANGED <<call_shape, arg_pr_number, arg_branch, iteration_number,
                   llm_changes, ca_pr_number, ca_changes, effects, ca_raised>>
    /\ UNCHANGED <<orchestratorVars, reviewerVars, webhookVars>>

\* lines 83-127: the model is asked, its changes are validated, and the call
\* returns a failure when none is left.
ExecuteGenerate ==
    /\ ca_pc = "generate"
    /\ \E ok \in BOOLEAN :
          IF ~ok
          THEN /\ fault' = TRUE
               /\ ca_pc' = "done"
               /\ ca_result' = ExceptResult
               /\ UNCHANGED ca_changes
          ELSE /\ ca_changes' = ValidChanges(llm_changes)
               /\ IF ValidChanges(llm_changes) = <<>>
                  THEN /\ ca_pc' = "done"
                       /\ ca_result' = ExecutionResult(FALSE,
                              NoValidChangesMessage, None, None, <<>>)
                  ELSE ca_pc' = "apply" /\ UNCHANGED ca_result
               /\ UNCHANGED fault
    /\ UNCHANGED <<call_shape, arg_pr_number, arg_branch, iteration_number,
                   llm_changes, ca_pr_number, ca_branch, effects, ca_raised>>
    /\ UNCHANGED <<orchestratorVars, reviewerVars, webhookVars>>

\* lines 131-135: the repository is prepared and the changes are applied; an exception goes to the except clause.
ExecuteApplyChanges ==
    /\ ca_pc = "apply"
    /\ effects' = Append(effects, "apply_changes")
    /\ \E ok \in BOOLEAN :
          IF ok
          THEN ca_pc' = "commit" /\ UNCHANGED <<fault, ca_result>>
          ELSE /\ fault' = TRUE
               /\ ca_pc' = "done"
               /\ ca_result' = ExceptResult
    /\ UNCHANGED <<call_shape, arg_pr_number, arg_branch, iteration_number,
                   llm_changes, ca_pr_number, ca_branch, ca_changes, ca_raised>>
    /\ UNCHANGED <<orchestratorVars, reviewerVars, webhookVars>>

\* lines 137-144: the changes are committed; an exception goes to the except clause.
ExecuteCommitChanges ==
    /\ ca_pc = "commit"
    /\ effects' = Append(effects, "commit_changes")
    /\ \E ok \in BOOLEAN :
          IF ok
          THEN ca_pc' = "push" /\ UNCHANGED <<fault, ca_result>>
          ELSE /\ fault' = TRUE
               /\ ca_pc' = "done"
               /\ ca_result' = ExceptResult
    /\ UNCHANGED <<call_shape, arg_pr_number, arg_branch, iteration_number,
                   llm_changes, ca_pr_number, ca_branch, ca_changes, ca_raised>>
    /\ UNCHANGED <<orchestratorVars, reviewerVars, webhookVars>>

\* lines 146-149: the branch is pushed; an exception goes to the except clause.
ExecutePushChanges ==
    /\ ca_pc = "push"
    /\ effects' = Append(effects, "push_changes")
    /\ \E ok \in BOOLEAN :
          IF ok
          THEN ca_pc' = "open_pr" /\ UNCHANGED <<fault, ca_result>>
          ELSE /\ fault' = TRUE
               /\ ca_pc' = "done"
               /\ ca_result' = ExceptResult
    /\ UNCHANGED <<call_shape, arg_pr_number, arg_branch, iteration_number,
                   llm_changes, ca_pr_number, ca_branch, ca_changes, ca_raised>>
    /\ UNCHANGED <<orchestratorVars, reviewerVars, webhookVars>>

\* lines 151-181: without a PR number the open PR of the branch is looked up;
\* the PR is updated when there is one and created otherwise, and the call
\* returns its success. The host refuses a second open PR for a branch.
ExecuteOpenPr ==
    /\ ca_pc = "open_pr"
    /\ \E apiOk \in BOOLEAN, ok \in BOOLEAN, created \in CreatedPRNumbers :
          LET existing_pr == GetPrByBranch(openPRs, Get(ca_branch), apiOk)
              known == IF IsSet(ca_pr_number) THEN ca_pr_number
                       ELSE IF IsSet(existing_pr)
                       THEN Some(Get(existing_pr).number)
                       ELSE None
              lookup == IF IsSet(ca_pr_number) THEN <<>> ELSE <<"get_pr_by_branch">>
              op == IF IsSet(known) THEN "update_pr" ELSE "create_pr"
              final == IF IsSet(known) THEN known ELSE Some(created)
              accepted ==
                  IsSet(known) \/ \A p \in openPRs : p.head_branch # Get(ca_branch)
          IN  /\ effects' = effects \o lookup \o <<op>>
              /\ ca_pc' = "done"
              /\ IF ok /\ accepted
                 THEN /\ ca_pr_number' = final
                      /\ openPRs' = IF IsSet(known) THEN openPRs
                                     ELSE openPRs \cup
                                          {[number |-> created,
                                            head_branch |-> Get(ca_branch)]}
                      /\ ca_result' = ExecutionResult(TRUE, "PR created or updated",
                                                      final, ca_branch, ca_changes)
                      /\ UNCHANGED fault
                 ELSE /\ ca_pr_number' = known
                      /\ fault' = TRUE
                      /\ ca_result' = ExceptResult
                      /\ UNCHANGED openPRs
    /\ UNCHANGED <<call_shape, arg_pr_number, arg_branch, iteration_number,
                   llm_changes, ca_branch, ca_changes, ca_raised>>
    /\ UNCHANGED <<runVars, reviewerVars, webhookVars>>

NextCodeAgent ==
    \/ ExecuteCall
    \/ ExecuteGetIssue
    \/ ExecuteGenerate
    \/ ExecuteApplyChanges
    \/ ExecuteCommitChanges
    \/ ExecutePushChanges
    \/ ExecuteOpenPr

SpecCodeAgent == InitCodeAgent /\ [][NextCodeAgent]_vars

----------------------------------------------------------------------------
(* Vocabulary of the properties *)

HasReturned == IsSet(result)
Res == Get(result)

CallsOf(op) == {i \in DOMAIN calls : calls[i].op = op}
CodeCalls == CallsOf("code_agent.execute")
ReviewCalls == CallsOf("reviewer.execute")
PublishCalls == CallsOf("reviewer.publish_review")
CommentCalls == CallsOf("github.create_comment")

LastCall == calls[Len(calls)]

Min(S) == CHOOSE x \in S : \A y \in S : x <= y

Max(a, b) == IF a >= b THEN a ELSE b

\* The review verdict has been published and recorded in the state.
Recorded(v) == state.last_review_verdict = v

----------------------------------------------------------------------------
(* github_webhook (api/server.py): the events that start a run              *)

WebhookIterationsBound == 2
MaxDeliveries == 2

\* the default of the start_iteration parameter of process_issue
DefaultStartIteration == 1

\* Variant: the follow-up run resumes at the iteration the last run reached.
FollowUpStartIteration_Resumed == iteration

\* orchestrator.process_issue(repo, issue_number): start_iteration is not
\* passed, so the run starts at the default.
FollowUpStartIteration == DefaultStartIteration

DecimalDigits == "0123456789"

IsDigit(c) == \E d \in 1..10 : SubSeq(DecimalDigits, d, d) = c

DigitValue(c) == (CHOOSE d \in 1..10 : SubSeq(DecimalDigits, d, d) = c) - 1

\* the end of the run of digits that starts at position i
RECURSIVE DigitsEnd(_, _)
DigitsEnd(text, i) ==
    IF i < Len(text) /\ IsDigit(SubSeq(text, i + 1, i + 1))
    THEN DigitsEnd(text, i + 1)
    ELSE i

\* int() of a string of digits
RECURSIVE ToInt(_)
ToInt(digits) ==
    IF Len(digits) = 0 THEN 0
    ELSE 10 * ToInt(SubSeq(digits, 1, Len(digits) - 1))
         + DigitValue(SubSeq(digits, Len(digits), Len(digits)))

\* re.search(r"#(\d+)", pr_body): the number after the first "#" that is
\* followed by a digit, None when there is no match.
IssueMatch(pr_body) ==
    LET hits == {i \in 1..(Len(pr_body) - 1) :
                    /\ SubSeq(pr_body, i, i) = "#"
                    /\ IsDigit(SubSeq(pr_body, i + 1, i + 1))}
    IN  IF hits = {} THEN None
        ELSE LET i == Min(hits)
             IN  Some(ToInt(SubSeq(pr_body, i + 1, DigitsEnd(pr_body, i + 1))))

\* The pull_request payloads delivered: the PR, the type of its author and
\* its body.
PullRequestPayloads ==
    {[number |-> n, user_type |-> t, body |-> b] :
        n \in PRNumbers, t \in {"Bot", "User"},
        b \in {"Closes #7", "Fixes #7, see also #12", "no issue named"}}

\* if review_result.verdict.value == "changes_requested"
\*    and pr.get("user", {}).get("type") == "Bot"
StartsFollowUp(verdict, pr) ==
    /\ verdict = CHANGES_REQUESTED
    /\ pr.user_type = "Bot"
    /\ IsSet(IssueMatch(pr.body))

InitWebhook ==
    /\ max_iterations \in 1..WebhookIterationsBound
    /\ openPRs \in {{}, HostPRs}
    /\ reviews = [p \in PRNumbers |-> <<>>]
    /\ start_iteration = 0
    /\ iteration = 0
    /\ state = NoState
    /\ review_result = Unset
    /\ pc = "idle"
    /\ result = None
    /\ raised = None
    /\ calls = <<>>
    /\ comments = <<>>
    /\ ServicesOff
    /\ WebhookOff

\* github_webhook, event issues / opened (lines 196-212): the run for the new
\* issue is started with process_issue(repo, issue_number).
WebhookIssueOpened ==
    /\ pc = "idle"
    /\ deliveries < MaxDeliveries
    /\ \E n \in IssueNumbers, apiOk1 \in BOOLEAN, apiOk2 \in BOOLEAN :
          LET s == DefaultStartIteration
              existing_pr == FindExistingPr(openPRs, n, apiOk1, apiOk2)
              fresh == IterationState(n, Repository, s)
          IN  /\ start_iteration' = s
              /\ iteration' = s
              /\ state' = IF IsSet(existing_pr)
                          THEN [fresh EXCEPT
                                  !.pr_number = Some(Get(existing_pr).number),
                                  !.branch = Some(Get(existing_pr).head_branch)]
                          ELSE fresh
    /\ pc' = "loop"
    /\ deliveries' = deliveries + 1
    /\ runs' = runs + 1
    /\ UNCHANGED <<max_iterations, review_result, result, raised, calls,
                   comments, openPRs, reviews, earlier_code_calls>>
    /\ UNCHANGED serviceVars

\* github_webhook, event pull_request / opened or synchronize (lines
\* 214-252): the PR is reviewed and the review published; a review that asks
\* for changes on a PR of a Bot whose body names an issue starts the next run
\* with process_issue(repo, issue_number).  The handler is called once the
\* run of the event before it has ended; an exception of publish_review
\* leaves the handler through its except clause (lines 271-273).
WebhookPullRequest ==
    /\ pc \in {"idle", "done"}
    /\ deliveries < MaxDeliveries
    /\ deliveries' = deliveries + 1
    /\ \E pr \in PullRequestPayloads, path \in ReviewerPaths,
          publishOk \in BOOLEAN, apiOk1 \in BOOLEAN, apiOk2 \in BOOLEAN :
          LET verdict == ReviewerVerdict(path)
              published ==
                  [reviews EXCEPT ![pr.number] =
                      Append(@, [state |-> HostReviewState(ReviewEvent(verdict)),
                                 event |-> ReviewEvent(verdict),
                                 body |-> ReviewBody(verdict)])]
              n == Get(IssueMatch(pr.body))
              s == FollowUpStartIteration
              existing_pr == FindExistingPr(openPRs, n, apiOk1, apiOk2)
              fresh == IterationState(n, Repository, s)
          IN  /\ reviews' = IF publishOk THEN published ELSE reviews
              /\ IF publishOk /\ StartsFollowUp(verdict, pr)
                 THEN /\ start_iteration' = s
                      /\ iteration' = s
                      /\ state' =
                            IF IsSet(existing_pr)
                            THEN [fresh EXCEPT
                                    !.pr_number = Some(Get(existing_pr).number),
                                    !.branch = Some(Get(existing_pr).head_branch)]
                            ELSE fresh
                      /\ review_result' = Unset
                      /\ result' = None
                      /\ raised' = None
                      /\ calls' = <<>>
                      /\ pc' = "loop"
                      /\ runs' = runs + 1
                      /\ earlier_code_calls' =
                            earlier_code_calls + Cardinality(CodeCalls)
                 ELSE UNCHANGED <<start_iteration, iteration, state,
                                  review_result, result, raised, calls, pc,
                                  runs, earlier_code_calls>>
    /\ UNCHANGED <<max_iterations, comments, openPRs>>
    /\ UNCHANGED serviceVars

NextWebhook ==
    \/ WebhookIssueOpened
    \/ WebhookPullRequest
    \/ CodeAgentStep
    \/ ReviewerExecute
    \/ PrNotCreated
    \/ PublishReview
    \/ IterationLimit

SpecWebhook == InitWebhook /\ [][NextWebhook]_vars

----------------------------------------------------------------------------
(* C1 as stated: the returned iteration never exceeds max_iterations + 1,   *)
(* and a returned iteration above max_iterations comes with success =       *)
(* false, for every start_iteration.                                        *)
C1_IterationAtMostLimitPlusOne ==
    HasReturned =>
        /\ Res.iteration <= max_iterations + 1
        /\ (Res.iteration > max_iterations => ~Res.success)

(* C1 amended: the returned iteration is at most the larger of              *)
(* max_iterations and start_iteration - 1 (so at most max_iterations + 1    *)
(* when start_iteration <= max_iterations + 2), and a returned iteration    *)
(* above max_iterations comes with success = false.                         *)
C1_IterationBound ==
    HasReturned =>
        /\ Res.iteration <= Max(max_iterations, start_iteration - 1)
        /\ (start_iteration <= max_iterations + 2
                => Res.iteration <= max_iterations + 1)
        /\ (Res.iteration > max_iterations => ~Res.success)

\* A run that used up its passes and reports the last one.
C1_Witness ==
    /\ HasReturned
    /\ start_iteration < max_iterations
    /\ Res.iteration = max_iterations
    /\ Res.message = LimitMessage(max_iterations)
    /\ ~Res.success
    /\ Cardinality(CodeCalls) = max_iterations - start_iteration + 1

(* C2: once the verdict Approved is published and recorded, the run is      *)
(* completed and has returned success = true with the iteration of that     *)
(* pass; after a review that returned Approved the only further call is     *)
(* the publication of that review.                                          *)
C2_ApprovedCompletes ==
    /\ Recorded(APPROVED) =>
            /\ pc = "done"
            /\ state.completed
            /\ HasReturned
            /\ Res.success
            /\ Res.iteration = LastCall.iteration
            /\ LastCall.op = "reviewer.publish_review"
            /\ LastCall.outcome = APPROVED
    /\ \A i \in ReviewCalls :
          calls[i].outcome = APPROVED =>
              /\ Len(calls) <= i + 1
              /\ \A j \in DOMAIN calls :
                    j > i => calls[j].op = "reviewer.publish_review"
    /\ \A i \in PublishCalls : calls[i].outcome = APPROVED => Recorded(APPROVED)

C2_Witness ==
    /\ Recorded(APPROVED)
    /\ pc = "done"
    /\ Res.success
    /\ Cardinality(ReviewCalls) >= 2

(* C3: when a review that requests changes has been published at an         *)
(* iteration below max_iterations, the loop goes on with iteration + 1 and  *)
(* its next step is a call of CodeAgent.execute for that iteration; every   *)
(* call of CodeAgent.execute after the first one of the run directly        *)
(* follows the publication of a ChangesRequested verdict.                   *)
C3_ChangesRequestedReinvokes ==
    /\ [][(/\ pc = "publish"
           /\ review_result = CHANGES_REQUESTED
           /\ iteration < max_iterations
           /\ ~IsSet(raised'))
          => (/\ pc' = "loop"
              /\ iteration' = iteration + 1
              /\ state'.current_iteration = iteration + 1
              /\ state'.last_review_verdict = CHANGES_REQUESTED
              /\ ~state'.completed)]_vars
    /\ [][(/\ pc = "loop"
           /\ Recorded(CHANGES_REQUESTED)
           /\ iteration <= max_iterations)
          => (/\ Len(calls') = Len(calls) + 1
              /\ calls'[Len(calls')].op = "code_agent.execute"
              /\ calls'[Len(calls')].iteration = iteration)]_vars
    /\ [](\A i \in CodeCalls :
            i # Min(CodeCalls) =>
                /\ i > 2
                /\ calls[i - 1].op = "reviewer.publish_review"
                /\ calls[i - 1].outcome = CHANGES_REQUESTED
                /\ calls[i - 2].op = "reviewer.execute"
                /\ calls[i - 2].outcome = CHANGES_REQUESTED
                /\ calls[i].iteration = calls[i - 1].iteration + 1)

C3_Witness ==
    /\ Cardinality(CodeCalls) >= 2
    /\ LastCall.op = "code_agent.execute"
    /\ LastCall.outcome = "success"
    /\ Recorded(CHANGES_REQUESTED)
    /\ iteration < max_iterations

(* C4: once the verdict Comment is published and recorded, the run has      *)
(* returned success = true with completed = true; the returned iteration    *)
(* and state.current_iteration are the iteration of the pass of that        *)
(* review, and no call follows the publication.                             *)
C4_CommentTerminates ==
    /\ Recorded(COMMENT) =>
            /\ pc = "done"
            /\ state.completed
            /\ HasReturned
            /\ Res.success
            /\ LastCall.op = "reviewer.publish_review"
            /\ LastCall.outcome = COMMENT
            /\ Res.iteration = LastCall.iteration
            /\ state.current_iteration = LastCall.iteration
            /\ iteration = LastCall.iteration
    /\ \A i \in PublishCalls : calls[i].outcome = COMMENT => Recorded(COMMENT)

C4_Witness ==
    /\ Recorded(COMMENT)
    /\ pc = "done"
    /\ Res.success
    /\ Cardinality(ReviewCalls) >= 2

(* C5: a call of CodeAgent.execute that returns success = false at          *)
(* iteration k is the last call of the run; the run has returned            *)
(* success = false with iteration = k, and no ReviewerAgent.execute or      *)
(* publish_review call was made at iteration k.                             *)
C5_CodeAgentFailureIsFatal ==
    \A i \in CodeCalls :
        calls[i].outcome = "failure" =>
            /\ i = Len(calls)
            /\ pc = "done"
            /\ HasReturned
            /\ ~Res.success
            /\ ~state.completed
            /\ Res.iteration = calls[i].iteration
            /\ \A j \in DOMAIN calls :
                  calls[j].iteration = calls[i].iteration => j = i

C5_Witness ==
    /\ Cardinality(CodeCalls) >= 2
    /\ LastCall.op = "code_agent.execute"
    /\ LastCall.outcome = "failure"
    /\ IsSet(state.pr_number)
    /\ pc = "done"

(* C6 as stated: when the run starts with a discovered open PR and the      *)
(* first review is Approved, CodeAgent.execute is never called in the run   *)
(* and the result has success = true.                                       *)
DiscoveredAtStart == calls # <<>> /\ IsSet(calls[1].pr_number)

C6_ExistingPrSkipsCodeAgent ==
    (/\ pc = "done"
     /\ DiscoveredAtStart
     /\ ReviewCalls # {}
     /\ calls[Min(ReviewCalls)].outcome = APPROVED
     /\ Recorded(APPROVED))
    => (CodeCalls = {} /\ HasReturned /\ Res.success)

(* C7: a run whose CodeAgent calls all succeed and whose reviews are n - 1  *)
(* times ChangesRequested and then Approved returns success = true with     *)
(* iteration = start_iteration + n - 1 after exactly n CodeAgent calls, one *)
(* per pass, at the iterations start_iteration .. start_iteration + n - 1.  *)
ReviewSeq == SelectSeq(calls, LAMBDA c : c.op = "reviewer.execute")
CodeSeq == SelectSeq(calls, LAMBDA c : c.op = "code_agent.execute")

ChangesThenApproved ==
    /\ HasReturned
    /\ ReviewSeq # <<>>
    /\ ReviewSeq[Len(ReviewSeq)].outcome = APPROVED
    /\ \A k \in 1..(Len(ReviewSeq) - 1) : ReviewSeq[k].outcome = CHANGES_REQUESTED
    /\ \A k \in DOMAIN CodeSeq : CodeSeq[k].outcome = "success"

C7_OnePassPerVerdict ==
    ChangesThenApproved =>
        /\ Res.success
        /\ Res.iteration = start_iteration + Len(ReviewSeq) - 1
        /\ Res.iteration <= max_iterations
        /\ Len(CodeSeq) = Len(ReviewSeq)
        /\ \A k \in DOMAIN CodeSeq : CodeSeq[k].iteration = start_iteration + k - 1

\* Scenario C
C7_Witness ==
    /\ ChangesThenApproved
    /\ start_iteration = 1
    /\ max_iterations = 5
    /\ Len(ReviewSeq) = 3
    /\ Res.iteration = 3
    /\ Len(CodeSeq) = 3

(* C8: a run that returns because the iteration limit is exceeded returns   *)
(* success = false with no Approved or Comment verdict recorded, and the    *)
(* issue then carries exactly one comment, which names the limit and the    *)
(* current PR number ("not created" when there is none); a run that ended   *)
(* in any other way has created no comment.  Scenario A: max_iterations =   *)
(* 1, PR 42, ChangesRequested gives iteration = 1 and one comment naming    *)
(* #42.                                                                     *)
LimitReached == HasReturned /\ Res.message = LimitMessage(max_iterations)

C8_LimitCommentOnce ==
    /\ LimitReached =>
          /\ ~Res.success
          /\ ~state.completed
          /\ state.last_review_verdict \in {Unset, CHANGES_REQUESTED}
          /\ iteration > max_iterations
          /\ Cardinality(CommentCalls) = 1
          /\ Len(comments) = 1
          /\ comments[1] =
                "Iteration limit reached (" \o ToString(max_iterations)
                    \o "). Current PR: #"
                    \o (IF state.pr_number = None THEN "not created"
                        ELSE ToString(state.pr_number[1]))
    /\ ~LimitReached => comments = <<>>
    /\ (HasReturned /\ iteration > max_iterations) => LimitReached
    /\ (/\ LimitReached
        /\ max_iterations = 1
        /\ start_iteration = 1
        /\ state.pr_number = Some(42))
       => (/\ Res.iteration = 1
           /\ comments = <<"Iteration limit reached (1). Current PR: #42">>)

\* Scenario A
C8_Witness ==
    /\ LimitReached
    /\ max_iterations = 1
    /\ start_iteration = 1
    /\ Len(calls) = 4
    /\ calls[1].op = "code_agent.execute"
    /\ calls[1].outcome = "success"
    /\ state.pr_number = Some(42)
    /\ calls[2].outcome = CHANGES_REQUESTED
    /\ ~Res.success
    /\ Res.iteration = 1
    /\ comments = <<"Iteration limit reached (1). Current PR: #42">>

(* C9 as stated: process_issue never raises; whatever a collaborator        *)
(* raises, the run ends with a returned result that has success = false.    *)
C9_NeverRaises ==
    pc = "done" =>
        /\ ~IsSet(raised)
        /\ HasReturned
        /\ (LastCall.outcome = "raise" => ~Res.success)

(* C10 as stated: a run that ends on a CodeAgent failure returns the        *)
(* message of the AgentExecutionResult unchanged.                           *)
C10_FailureMessageUnmodified ==
    \A i \in CodeCalls :
        calls[i].outcome = "failure" =>
            (HasReturned /\ Res.message = calls[i].message)

(* C10 amended: a run that ends on a CodeAgent failure stops at once and    *)
(* returns the message of the AgentExecutionResult behind the prefix        *)
(* "Code Agent error: "; a run that has no PR number after a successful     *)
(* CodeAgent call stops at once and returns the fixed message               *)
(* "PR was not created".                                                    *)
C10_FailureMessagePrefixed ==
    /\ [](\A i \in CodeCalls :
            calls[i].outcome = "failure" =>
                /\ i = Len(calls)
                /\ pc = "done"
                /\ HasReturned
                /\ ~Res.success
                /\ calls[i].message \in AgentMessages
                /\ Res.message = "Code Agent error: " \o calls[i].message)
    /\ []((/\ pc = "done"
           /\ calls # <<>>
           /\ LastCall.op = "code_agent.execute"
           /\ LastCall.outcome = "success")
          => (/\ ~IsSet(state.pr_number)
              /\ HasReturned
              /\ ~Res.success
              /\ Res.message = "PR was not created"
              /\ Res.iteration = LastCall.iteration))
    /\ [][(pc = "review" /\ ~IsSet(state.pr_number))
            => (pc' = "done" /\ calls' = calls /\ IsSet(result'))]_vars

C10_Witness ==
    /\ Cardinality(CodeCalls) >= 2
    /\ LastCall.op = "code_agent.execute"
    /\ LastCall.outcome = "failure"
    /\ HasReturned
    /\ Res.message = "Code Agent error: timeout exceeded"

----------------------------------------------------------------------------
(* C13: no CodeAgent, ReviewerAgent or publish call is made at an iteration *)
(* above max_iterations (or below start_iteration); a run makes at most     *)
(* max_iterations - start_iteration + 1 passes, so a run resumed at 4 with  *)
(* a limit of 5 makes at most the passes 4 and 5, and a run with            *)
(* start_iteration > max_iterations makes none.                             *)
PassCalls == CodeCalls \cup ReviewCalls \cup PublishCalls

C13_HardCeiling ==
    /\ \A i \in PassCalls :
          /\ calls[i].iteration <= max_iterations
          /\ calls[i].iteration >= start_iteration
    /\ Cardinality(CodeCalls) <= Max(0, max_iterations - start_iteration + 1)
    /\ Cardinality(ReviewCalls) <= Max(0, max_iterations - start_iteration + 1)
    /\ (pc # "idle" /\ start_iteration > max_iterations) => PassCalls = {}
    /\ (pc # "idle" /\ start_iteration = 4 /\ max_iterations = 5) =>
          /\ Cardinality(CodeCalls) <= 2
          /\ \A i \in PassCalls : calls[i].iteration \in {4, 5}

C13_Witness ==
    /\ pc = "done"
    /\ start_iteration = 4
    /\ max_iterations = 5
    /\ Cardinality(CodeCalls) = 2
    /\ Cardinality(ReviewCalls) = 2
    /\ LimitReached

(* C14 as stated: at the start of a run an open PR whose head branch is     *)
(* issue-{n} is the one that seeds the state whenever a PR is seeded, and   *)
(* when there is none, an open PR whose head branch starts with             *)
(* issue-{n}-iter- is discovered and seeds state.pr_number and state.branch *)
(* before the first pass.                                                   *)
StartsWith(str, prefix) ==
    Len(str) >= Len(prefix) /\ SubSeq(str, 1, Len(prefix)) = prefix

C14_PrefixDiscovery ==
    [][(pc = "idle" /\ pc' = "loop") =>
        LET n == state'.issue_number
            exact == {p \in openPRs : p.head_branch = IssueBranch(n)}
            prefixed == {p \in openPRs :
                            StartsWith(p.head_branch, IterPrefix(n))}
        IN  /\ (exact # {} /\ IsSet(state'.pr_number)) =>
                  \E p \in exact :
                      /\ state'.pr_number = Some(p.number)
                      /\ state'.branch = Some(p.head_branch)
            /\ (exact = {} /\ prefixed # {}) =>
                  \E p \in prefixed :
                      /\ state'.pr_number = Some(p.number)
                      /\ state'.branch = Some(p.head_branch)]_vars

(* C15: the verdict of every review is Approved, ChangesRequested or        *)
(* Comment: the value "approved" of the model gives Approved,               *)
(* "changes_requested" gives ChangesRequested and every other value, a      *)
(* missing value, an internal error or a timeout gives Comment; the verdict *)
(* recorded in the state is unset or one of the three.                      *)
C15_VerdictClosedSet ==
    /\ state.last_review_verdict \in {Unset} \cup ReviewVerdict
    /\ review_result \in {Unset} \cup ReviewVerdict
    /\ \A i \in ReviewCalls :
          /\ calls[i].outcome \in {"approved", "changes_requested", "comment"}
          /\ (calls[i].message = "llm:approved")
                = (calls[i].outcome = "approved")
          /\ (calls[i].message = "llm:changes_requested")
                = (calls[i].outcome = "changes_requested")

C15_Witness ==
    /\ pc = "done"
    /\ Recorded(COMMENT)
    /\ \E i \in ReviewCalls : calls[i].message = "llm:request_changes"
    /\ \E i \in ReviewCalls : calls[i].message = "llm:changes_requested"

(* C16: every publish_review that does not raise adds exactly one review to *)
(* the PR, submitted with the event COMMENT whatever the verdict, whose     *)
(* body opens with the header of the verdict; nothing else adds a review.   *)
C16_PublishAlwaysComment ==
    /\ [][pc = "publish" =>
            IF IsSet(raised')
            THEN reviews' = reviews
            ELSE reviews' = [reviews EXCEPT ![state.pr_number[1]] =
                    Append(@, [state |-> "COMMENTED",
                               event |-> "COMMENT",
                               body |-> IF review_result = "approved"
                                        THEN "ready to approve"
                                        ELSE IF review_result = "changes_requested"
                                        THEN "changes required"
                                        ELSE "review comment"])]]_vars
    /\ [][reviews' # reviews => pc = "publish"]_vars

C16_Witness ==
    /\ pc = "done"
    /\ Len(reviews[42]) = 2
    /\ reviews[42][1].event = "COMMENT"
    /\ reviews[42][1].body = "changes required"
    /\ reviews[42][2].event = "COMMENT"
    /\ reviews[42][2].body = "ready to approve"

(* C19: once state.pr_number is set it is set in every later state of the   *)
(* run, and so is state.branch; they change only at the discovery at the    *)
(* start or with a successful CodeAgent result, and then to a value that    *)
(* is set.                                                                  *)
C19_PrNumberNeverCleared ==
    [][/\ (IsSet(state.pr_number) => IsSet(state'.pr_number))
       /\ (IsSet(state.branch) => IsSet(state'.branch))
       /\ ((state'.pr_number # state.pr_number \/ state'.branch # state.branch) =>
             (\/ pc = "idle"
              \/ /\ pc = "loop"
                 /\ calls'[Len(calls')].op = "code_agent.execute"
                 /\ calls'[Len(calls')].outcome = "success"))
       /\ (state'.pr_number # state.pr_number => IsSet(state'.pr_number))
       /\ (state'.branch # state.branch => IsSet(state'.branch))]_vars

C19_Witness ==
    /\ Cardinality(CodeCalls) >= 3
    /\ calls[1].pr_number = Some(41)
    /\ \E i \in CodeCalls : calls[i].pr_number = Some(42)
    /\ calls[Len(calls)].op = "code_agent.execute"
    /\ calls[Len(calls)].outcome = "success"
    /\ calls[Len(calls)].pr_number = Some(41)
    /\ state.branch = Some(IterBranch(7, 1))

(* C20: state.completed is false and state.current_iteration equals         *)
(* start_iteration when the loop is entered; completed never goes back to   *)
(* false and becomes true only in a step that returns success; the          *)
(* current iteration never decreases and grows by one at a time.            *)
C20_CompletedOnceIterationMonotone ==
    /\ []((pc = "loop" /\ calls = <<>>) =>
            (~state.completed /\ state.current_iteration = start_iteration))
    /\ [](pc # "idle" => state.current_iteration = iteration)
    /\ [][/\ (state.completed => state'.completed)
           /\ ((state'.completed /\ ~state.completed) =>
                 (pc' = "done" /\ IsSet(result') /\ result'[1].success))
           /\ (pc # "idle" =>
                 state'.current_iteration \in
                     {state.current_iteration, state.current_iteration + 1})]_vars

C20_Witness ==
    /\ pc = "done"
    /\ state.completed
    /\ state.current_iteration = start_iteration + 2

----------------------------------------------------------------------------
(* C11: when the CI results obtained before the wait hold no Pending entry  *)
(* (the empty list included), the wait returns them at once: no poll of the *)
(* host, no sleep, no time spent, whether execute skips the wait or         *)
(* _wait_for_ci_completion is called with them.                             *)
NoPending(results) == \A i \in 1..Len(results) : results[i].status # "pending"

InitialKnown == rv_pc \notin {"off", "get_pr", "get_ci"}

C11_NoPendingReturnsImmediately ==
    (InitialKnown /\ NoPending(initial_ci_results)) =>
        /\ polls = 0
        /\ sleeps = 0
        /\ last_poll_elapsed = -1
        /\ last_check_elapsed \in {-1, 0}
        /\ ci_results = initial_ci_results
        /\ rv_pc \notin {"sleep", "poll"}
        /\ wait_outcome # "none" => wait_result = initial_ci_results

C11_Witness ==
    /\ rv_pc = "done"
    /\ entry = "wait"
    /\ max_ci_wait_time = DefaultMaxWaitTime
    /\ initial_ci_results = <<>>
    /\ wait_outcome = "completed"
    /\ wait_result = <<>>
    /\ polls = 0

(* The parts of C12 that do not depend on when the last poll may start:     *)
(* each poll follows one sleep of a poll interval; at each test of the loop *)
(* the wait returns the current results when none is pending or when        *)
(* max_wait has elapsed and sleeps otherwise; after it returned nothing is  *)
(* polled; what it returns after polls is the result of the last poll; the  *)
(* call always terminates.                                                  *)
C12_PollLoop ==
    /\ [](sleeps \in {polls, polls + 1})
    /\ []((rv_pc = "poll") = (sleeps = polls + 1))
    /\ [][polls' = polls + 1 =>
            last_poll_elapsed' >=
                (IF polls = 0 THEN 0 ELSE last_poll_elapsed) + check_interval]_vars
    /\ [][rv_pc = "wait_check" =>
            IF NoPending(ci_results) \/ now - wait_start_time >= max_ci_wait_time
            THEN /\ wait_outcome' \in {"completed", "timeout"}
                 /\ wait_result' = ci_results
                 /\ rv_pc' \in {"done", "get_reviews"}
                 /\ polls' = polls /\ sleeps' = sleeps
            ELSE rv_pc' = "sleep" /\ wait_outcome' = "none"]_vars
    /\ [][wait_outcome # "none" =>
            (polls' = polls /\ sleeps' = sleeps /\ wait_result' = wait_result)]_vars
    /\ []((wait_outcome \in {"completed", "timeout"} /\ polls > 0) =>
            wait_result = last_poll_result)
    /\ []((wait_outcome = "completed") => NoPending(wait_result))
    /\ <>(rv_pc = "done")

(* C12 as stated: the poll loop above, and no poll is started once the      *)
(* elapsed time has reached max_wait.                                      *)
C12_NoPollOnceMaxWaitElapsed ==
    /\ C12_PollLoop
    /\ [](polls > 0 => last_poll_elapsed < max_ci_wait_time)

(* C12 amended: the poll loop above; a poll is started only after a test of *)
(* the loop that found the elapsed time below max_wait and after the sleep  *)
(* of one poll interval that follows it, so a poll may start at or after    *)
(* max_wait but less than one poll interval after it; with max_wait <= 0    *)
(* nothing is polled and the initial results are returned.                  *)
C12_PollWithinOneIntervalOfMaxWait ==
    /\ C12_PollLoop
    /\ [][polls' = polls + 1 =>
            /\ last_check_elapsed < max_ci_wait_time
            /\ last_poll_elapsed' = last_check_elapsed + check_interval]_vars
    /\ [](polls > 0 => last_poll_elapsed < max_ci_wait_time + check_interval)
    /\ []((wait_outcome = "timeout" /\ polls = 0) =>
            (max_ci_wait_time <= 0 /\ wait_result = initial_ci_results))

C12_Witness ==
    /\ rv_pc = "done"
    /\ entry = "wait"
    /\ max_ci_wait_time = DefaultMaxWaitTime
    /\ wait_outcome = "timeout"
    /\ polls >= 2
    /\ last_poll_elapsed >= max_ci_wait_time
    /\ ~NoPending(wait_result)
    /\ wait_result = last_poll_result

----------------------------------------------------------------------------
(* C17 as stated: every successful result of CodeAgent.execute carries a    *)
(* non-empty list of changes, a PR number and the branch, and the call made *)
(* exactly one of create_pr and update_pr, after commit and push; and a     *)
(* call that supplies no PR number, finds no open PR on its branch, gets a  *)
(* valid change from the model and meets no failing collaborator creates a  *)
(* new PR and returns its number with success.                              *)
EffectsOf(ops) == {i \in 1..Len(effects) : effects[i] \in ops}

BranchOfCall ==
    IF IsSet(arg_branch) THEN Get(arg_branch) ELSE IterBranch(7, iteration_number)

C17_SuccessOpensOnePr ==
    /\ (IsSet(ca_result) /\ ca_result[1].success) =>
          /\ ca_result[1].changes # <<>>
          /\ IsSet(ca_result[1].pr_number)
          /\ ca_result[1].branch = Some(BranchOfCall)
          /\ Cardinality(EffectsOf({"create_pr", "update_pr"})) = 1
          /\ \A i \in EffectsOf({"create_pr", "update_pr"}) :
                /\ \E j \in EffectsOf({"commit_changes"}) : j < i
                /\ \E j \in EffectsOf({"push_changes"}) : j < i
    /\ (/\ ca_pc = "done"
        /\ ~fault
        /\ ~IsSet(arg_pr_number)
        /\ ValidChanges(llm_changes) # <<>>
        /\ \A p \in openPRs :
              p.head_branch = BranchOfCall => p.number \in CreatedPRNumbers) =>
          /\ IsSet(ca_result)
          /\ ca_result[1].success
          /\ EffectsOf({"create_pr"}) # {}
          /\ ca_result[1].pr_number \in {Some(n) : n \in CreatedPRNumbers}
          /\ \E p \in openPRs :
                p.head_branch = BranchOfCall /\ Some(p.number) = ca_result[1].pr_number

(* C18 as stated: a call whose model proposes only invalid changes (none,   *)
(* or create/modify changes whose content is empty or shorter than 10       *)
(* characters once stripped) and that meets no failing collaborator returns *)
(* success = false with the message that no valid change was returned, and  *)
(* no call with such a model makes an apply_changes, commit, push,          *)
(* create_pr or update_pr call.                                             *)
C18_NoValidChangesNoSideEffect ==
    ValidChanges(llm_changes) = <<>> =>
        /\ effects = <<>>
        /\ (ca_pc = "done" /\ ~fault) =>
              /\ IsSet(ca_result)
              /\ ~ca_result[1].success
              /\ ca_result[1].message = NoValidChangesMessage

----------------------------------------------------------------------------
(* C21: the calls of a run follow the order CodeAgent.execute,              *)
(* ReviewerAgent.execute (with wait_for_ci = true), publish_review in each  *)
(* pass: every review follows a successful CodeAgent call of the same       *)
(* iteration, every CodeAgent call after the first follows a publish, and   *)
(* every review is followed by one publish_review for the same PR and with  *)
(* its verdict, made before the state or the result reflect the verdict.    *)
C21_PerPassOrder ==
    /\ \A i \in ReviewCalls :
          /\ calls[i].wait_for_ci
          /\ i > 1
          /\ calls[i - 1].op = "code_agent.execute"
          /\ calls[i - 1].outcome = "success"
          /\ calls[i - 1].iteration = calls[i].iteration
          /\ IF i = Len(calls)
             THEN /\ pc = "publish"
                  /\ ~HasReturned
                  /\ ~state.completed
                  /\ state.current_iteration = calls[i].iteration
             ELSE calls[i + 1].op = "reviewer.publish_review"
    /\ \A i \in PublishCalls :
          /\ i > 1
          /\ calls[i - 1].op = "reviewer.execute"
          /\ calls[i - 1].pr_number = calls[i].pr_number
          /\ calls[i - 1].iteration = calls[i].iteration
          /\ calls[i].outcome \in {calls[i - 1].outcome, "raise"}
    /\ \A i \in CodeCalls :
          i > 1 =>
              /\ calls[i - 1].op = "reviewer.publish_review"
              /\ calls[i - 1].iteration + 1 = calls[i].iteration

C21_Witness ==
    /\ pc = "done"
    /\ Len(calls) = 6
    /\ calls[1].op = "code_agent.execute"
    /\ calls[2].op = "reviewer.execute"
    /\ calls[3].op = "reviewer.publish_review"
    /\ calls[4].op = "code_agent.execute"
    /\ calls[5].op = "reviewer.execute"
    /\ calls[5].outcome = "comment"
    /\ calls[6].op = "reviewer.publish_review"
    /\ calls[6].outcome = "comment"

(* C22: the feedback handed to a CodeAgent call of an iteration above 1 on  *)
(* a known PR is the body of the newest review in state CHANGES_REQUESTED   *)
(* of the PR, else the body of its newest review, and None when it has no   *)
(* review; a failed lookup gives None and the call is made all the same.    *)
(* A CodeAgent call of iteration 1 or without a PR gets None.               *)
SelectedFeedback(revs) ==
    LET requested == {i \in 1..Len(revs) : revs[i].state = "CHANGES_REQUESTED"}
        newest(S) == CHOOSE i \in S : \A j \in S : j <= i
    IN  IF revs = <<>> THEN <<>>
        ELSE IF requested # {} THEN <<revs[newest(requested)].body>>
        ELSE <<revs[Len(revs)].body>>

NoPrAfterCode ==
    /\ calls # <<>>
    /\ calls[Len(calls)].op = "code_agent.execute"
    /\ calls[Len(calls)].outcome = "success"
    /\ state.pr_number = <<>>

C23_PrNotCreatedFails ==
    /\ \A i \in ReviewCalls \cup PublishCalls : calls[i].pr_number # <<>>
    /\ NoPrAfterCode =>
          /\ pc \in {"review", "done"}
          /\ pc = "done" =>
                /\ raised = <<>>
                /\ result = <<[success |-> FALSE,
                               message |-> "PR was not created",
                               iteration |-> calls[Len(calls)].iteration]>>

C23_Witness ==
    /\ pc = "done"
    /\ NoPrAfterCode
    /\ HasReturned
    /\ Res.message = "PR was not created"
    /\ Res.iteration = 3

(* C26: in every returned result success is true exactly when               *)
(* state.completed is true and exactly when the last verdict is Approved or *)
(* Comment; with success false the last verdict is unset or                 *)
(* ChangesRequested.                                                        *)
C26_SuccessIffCompleted ==
    HasReturned =>
        /\ Res.success = state.completed
        /\ Res.success = (state.last_review_verdict \in {"approved", "comment"})
        /\ ~Res.success =>
              /\ ~state.completed
              /\ state.last_review_verdict \in {Unset, "changes_requested"}

C26_Witness ==
    /\ HasReturned
    /\ ~Res.success
    /\ ~state.completed
    /\ state.last_review_verdict = "changes_requested"
    /\ calls[Len(calls)].op = "code_agent.execute"
    /\ calls[Len(calls)].outcome = "failure"

(* C27: a review never ends by raising; a review that failed internally or  *)
(* ran past its timeout has the verdict Comment, is published like any      *)
(* other, and once published ends the run with success = true and           *)
(* completed = true.                                                        *)
FailedReviews == {i \in ReviewCalls : calls[i].message \in {"error", "timeout"}}

C27_ReviewFailureIsComment ==
    /\ \A i \in ReviewCalls : calls[i].outcome # "raise"
    /\ \A i \in FailedReviews :
          /\ calls[i].outcome = "comment"
          /\ i < Len(calls) =>
                /\ calls[i + 1].op = "reviewer.publish_review"
                /\ calls[i + 1].outcome \in {"comment", "raise"}
                /\ i + 1 = Len(calls)
                /\ pc = "done"
                /\ calls[i + 1].outcome = "comment" =>
                      /\ HasReturned
                      /\ Res.success
                      /\ state.completed
                      /\ state.last_review_verdict = "comment"

C27_Witness ==
    /\ pc = "done"
    /\ HasReturned
    /\ Res.success
    /\ state.completed
    /\ Len(calls) >= 2
    /\ calls[Len(calls) - 1].op = "reviewer.execute"
    /\ calls[Len(calls) - 1].message = "timeout"
    /\ calls[Len(calls)].outcome = "comment"

(* C28 as stated: a CodeAgent call that follows a published                 *)
(* ChangesRequested review gets the body of that review as its feedback     *)
(* (or none, when the lookup of the review history failed), whatever older  *)
(* reviews the PR carries.                                                  *)
C28_FeedbackIsJustPublished ==
    \A i \in CodeCalls :
        (/\ i > 1
         /\ calls[i - 1].op = "reviewer.publish_review"
         /\ calls[i - 1].outcome = "changes_requested") =>
            calls[i].previous_feedback \in {<<>>, <<"changes required">>}

----------------------------------------------------------------------------
(* C25: every run ends; it makes at most                                    *)
(* max(0, max_iterations - start_iteration + 1) passes; a publish that      *)
(* comes back either returns the result or raises the iteration by one, and *)
(* nothing else changes the iteration; a run that ends without an exception *)
(* of a collaborator ends in exactly one of Completed, IterationLimitReached*)
(* and Failed.                                                              *)
Completed == HasReturned /\ Res.success /\ state.completed

IterationLimitReached ==
    /\ HasReturned /\ ~Res.success /\ ~state.completed
    /\ iteration > max_iterations
    /\ StartsWith(Res.message, "Iteration limit reached")

Failed ==
    /\ HasReturned /\ ~Res.success /\ ~state.completed
    /\ iteration <= max_iterations
    /\ \/ StartsWith(Res.message, "Code Agent error")
       \/ Res.message = "PR was not created"

TerminalStates ==
    (IF Completed THEN 1 ELSE 0) + (IF IterationLimitReached THEN 1 ELSE 0)
        + (IF Failed THEN 1 ELSE 0)

C25_RunTerminates ==
    /\ <>(pc = "done")
    /\ [][pc = "done" => UNCHANGED vars]_vars
    /\ [](Cardinality(CodeCalls) <= Max(0, max_iterations - start_iteration + 1))
    /\ [](Cardinality(ReviewCalls) <= Max(0, max_iterations - start_iteration + 1))
    /\ [][(pc = "publish" /\ raised' = <<>>) =>
            \/ pc' = "done" /\ result' # <<>> /\ iteration' = iteration
            \/ pc' = "loop" /\ result' = <<>> /\ iteration' = iteration + 1]_vars
    /\ [][(pc \notin {"idle", "publish"}) => iteration' = iteration]_vars
    /\ []((pc = "done" /\ raised = <<>>) => TerminalStates = 1)
    /\ [](pc # "done" => (result = <<>> /\ raised = <<>>))

C25_Witness ==
    /\ pc = "done"
    /\ IterationLimitReached
    /\ max_iterations - start_iteration + 1 = 3
    /\ Cardinality(CodeCalls) = 3
    /\ Cardinality(PublishCalls) = 3

----------------------------------------------------------------------------
(* C24: when the CI wait of execute ends by its time limit with a result    *)
(* still pending, the review goes on: the model is asked and execute does   *)
(* not return the Comment of its own timeout check.                         *)
CiWaitTimedOut ==
    /\ entry = "execute"
    /\ wait_outcome = "timeout"
    /\ HasPendingCi(wait_result)

C24_ReviewProceedsAfterCiTimeout ==
    (rv_pc = "done" /\ CiWaitTimedOut) =>
        (IsSet(rv_result) /\ Get(rv_result).path # "timeout")

----------------------------------------------------------------------------
(* C30: a CI result is Pending only when its check run has no conclusion or *)
(* its commit status is pending, so the wait loop sleeps only while a check *)
(* of the commit has not concluded.                                         *)
NotConcluded(r) == r.conclusion \in {NoConclusion, "pending"}

C30_PendingOnlyWithoutConclusion ==
    /\ \A i \in 1..Len(ci_results) :
          ci_results[i].status = PENDING => NotConcluded(ci_results[i])
    /\ (rv_pc \in {"sleep", "poll"}) =>
          \E i \in 1..Len(ci_results) : NotConcluded(ci_results[i])

----------------------------------------------------------------------------
(* C29: a run started by the webhook starts at start_iteration = 1 with a   *)
(* fresh state of the workflow, whatever the runs before it reached, and    *)
(* max_iterations bounds the CodeAgent calls of each run on its own.        *)
TotalCodeCalls == earlier_code_calls + Cardinality(CodeCalls)

C29_FollowUpRunStartsAfresh ==
    /\ [](Cardinality(CodeCalls) <= max_iterations)
    /\ [][(runs' = runs + 1) =>
            /\ start_iteration' = 1
            /\ iteration' = 1
            /\ state'.current_iteration = 1
            /\ state'.last_review_verdict = Unset
            /\ ~state'.completed
            /\ calls' = <<>>
            /\ result' = <<>>
            /\ earlier_code_calls' = TotalCodeCalls]_vars

C29_Witness ==
    /\ pc = "done"
    /\ runs = 2
    /\ deliveries = 2
    /\ earlier_code_calls = max_iterations
    /\ Cardinality(CodeCalls) = max_iterations
    /\ TotalCodeCalls > max_iterations

====
